---- MODULE Spec2Model ----
(***************************************************************************)
(* ContextDB: the Entry record (src/src/types.rs) and the SQLite storage   *)
(* backend (src/src/storage/sqlite.rs) behind the StorageBackend contract. *)
(*                                                                         *)
(* The store is the two SQL tables of SqliteStorage::initialize: entries,  *)
(* keyed by the id text, and relations, a set of (from_id, to_id) pairs.   *)
(* No statement of the source turns on foreign-key enforcement (there is   *)
(* no PRAGMA foreign_keys), and examples/relations.rs inserts an entry     *)
(* whose relation target is not stored yet, so the FOREIGN KEY clauses are *)
(* declarative only and an edge may name an id that has no entries row.    *)
(*                                                                         *)
(* The caller owns Entry values; cur is the one it currently holds.  Every *)
(* field of Entry is pub, so besides Entry::new / with_context /           *)
(* add_relation the caller may assign fields directly (the tests and       *)
(* examples do so for meaning, expression, relations and the timestamps).  *)
(* Utc::now() reads the variable now, a wall clock that does not run       *)
(* backwards and may return the same instant twice.                        *)
(***************************************************************************)
EXTENDS Integers, Sequences, FiniteSets, TLC

VARIABLES entries, relations, cur, now, nextId, last, before, ops,
          LAST_ERROR, recent

\* the state of the C ABI (ffi.rs): the thread-local LAST_ERROR of every
\* thread, and for every thread how its latest open, insert, count or query
\* call through the C ABI ended
ffi == <<LAST_ERROR, recent>>

vars == <<entries, relations, cur, now, nextId, last, before, ops, ffi>>

(***************************************************************************)
(* Bounds of the model.                                                    *)
(***************************************************************************)
MaxIds == 3
MaxClock == 1
MaxRel == 2
MaxHops == 2
MaxOps == 6
TicksPerSecond == 2
MaxThreads == 2
MaxCalls == 4

Ids == 1..MaxIds
Times == 0..MaxClock
Threads == 1..MaxThreads

Range(s) == {s[i] : i \in DOMAIN s}

(***************************************************************************)
(* f32 values: finite numbers and NaN (the non-finite values behave alike  *)
(* in every conversion below).                                             *)
(***************************************************************************)
F(n) == [nan |-> FALSE, val |-> n]
NaN == [nan |-> TRUE, val |-> 0]
FiniteVals == {0, 1, 3, 4}

(***************************************************************************)
(* Text is a sequence of characters.  The characters of the model: an      *)
(* ASCII letter in both cases, a letter outside ASCII in both cases        *)
(* (U+00C9 and U+00E9), and two characters that are regex syntax.          *)
(***************************************************************************)
Chars == {"H", "h", "U+00C9", "U+00E9", ".", "["}

\* the vectors and texts the caller writes; Entry::new is called with the
\* first of the finite vectors or the NaN vector, and the first text
Meanings == {<<F(1), F(0)>>, <<F(0), F(1)>>, <<NaN>>}
NewMeanings == {<<F(1), F(0)>>, <<NaN>>}
Expressions == {<<"H", "h">>, <<"h", "U+00C9">>}
NewExpressions == {<<"H", "h">>}

(***************************************************************************)
(* serde_json::Value, as a tagged tree.                                    *)
(***************************************************************************)
JNull == <<"null">>
JString(s) == <<"string", s>>
JObject(k, v) == <<"object", k, v>>
JArray(items) == <<"array", items>>
JsonValues ==
    {JNull, JString("null"), JString("v"), JObject("k", JString("v")),
     JArray(<<JString("v")>>), JObject("k", JArray(<<JString("v")>>))}
Contexts == {JString("null"), JObject("k", JString("v"))}

(***************************************************************************)
(* Conversions between values and their stored text.                       *)
(***************************************************************************)
\* Uuid::to_string / Uuid::parse_str
UuidToString(id) == ToString(id)
UuidParseStr(s) == CHOOSE id \in Ids : ToString(id) = s

\* DateTime::to_rfc3339: whole seconds, then the sub-second digits
to_rfc3339(t) == <<t \div TicksPerSecond, t % TicksPerSecond>>
parse_from_rfc3339(s) == s[1] * TicksPerSecond + s[2]

\* serde_json::to_string(&Value) / serde_json::from_str
RECURSIVE json_to_string(_), json_items_to_string(_)
json_to_string(v) ==
    CASE v[1] = "null" -> "null"
      [] v[1] = "string" -> "\"" \o v[2] \o "\""
      [] v[1] = "object" -> "{\"" \o v[2] \o "\":" \o json_to_string(v[3]) \o "}"
      [] v[1] = "array" -> "[" \o json_items_to_string(v[2]) \o "]"

json_items_to_string(items) ==
    IF items = <<>> THEN ""
    ELSE IF Len(items) = 1 THEN json_to_string(items[1])
    ELSE json_to_string(items[1]) \o "," \o json_items_to_string(Tail(items))

json_parses(s) == \E v \in JsonValues : json_to_string(v) = s
json_from_str(s) == CHOOSE v \in JsonValues : json_to_string(v) = s

\* mod bincode: serde_json::to_vec / from_slice of a Vec<f32>.  serde_json
\* writes a non-finite float as the token null, and null does not read back
\* as an f32.
serialize(meaning) ==
    [i \in DOMAIN meaning |->
        IF meaning[i].nan THEN "null" ELSE ToString(meaning[i].val)]

deserialize_ok(bytes) == \A i \in DOMAIN bytes : bytes[i] # "null"
deserialize(bytes) ==
    [i \in DOMAIN bytes |->
        F(CHOOSE n \in FiniteVals : ToString(n) = bytes[i])]

(***************************************************************************)
(* Entry (types.rs)                                                        *)
(***************************************************************************)
NoEntry ==
    [id |-> 0, meaning |-> <<>>, expression |-> <<>>, context |-> JNull,
     created_at |-> 0, updated_at |-> 0, relations |-> <<>>]

\* Entry::new
EntryNew(id, meaning, expression, t) ==
    [id |-> id, meaning |-> meaning, expression |-> expression,
     context |-> JNull, created_at |-> t, updated_at |-> t,
     relations |-> <<>>]

\* Entry::with_context
with_context(e, context) == [e EXCEPT !.context = context]

\* an add_relation that stamps created_at in place of updated_at
add_relation_created(e, entry_id, t) ==
    IF entry_id \notin Range(e.relations)
    THEN [e EXCEPT !.relations = Append(e.relations, entry_id),
                   !.created_at = t]
    ELSE e

\* Entry::add_relation
add_relation(e, entry_id, t) ==
    IF entry_id \notin Range(e.relations)
    THEN [e EXCEPT !.relations = Append(e.relations, entry_id),
                   !.updated_at = t]
    ELSE e

(***************************************************************************)
(* StorageResult: res is "Ok" or the StorageError variant; errId is the id *)
(* a NotFound carries; entry, n and found are the Ok payloads of get,      *)
(* count and query (found is the Vec<QueryResult>).                        *)
(***************************************************************************)
Result(res, errId, entry, n, found) ==
    [res |-> res, errId |-> errId, entry |-> entry, n |-> n, found |-> found]
Ok == Result("Ok", 0, NoEntry, 0, <<>>)
OkEntry(entry) == Result("Ok", 0, entry, 0, <<>>)
OkCount(n) == Result("Ok", 0, NoEntry, n, <<>>)
OkFound(results) == Result("Ok", 0, NoEntry, 0, results)
NotFound(id) == Result("NotFound", id, NoEntry, 0, <<>>)
Database == Result("Database", 0, NoEntry, 0, <<>>)
\* the call does not return: a panic unwinds out of it
Panic == Result("Panic", 0, NoEntry, 0, <<>>)

\* what a &mut self operation leaves behind: the two tables and its result
Outcome(ents, rels, result) ==
    [entries |-> ents, relations |-> rels, result |-> result]

(***************************************************************************)
(* SqliteStorage (storage/sqlite.rs).  ents is the entries table, a        *)
(* function from id text to row; rels is the relations table, a set of     *)
(* <<from_id, to_id>> texts (PRIMARY KEY (from_id, to_id)).                *)
(***************************************************************************)
StoredIds(ents) == {UuidParseStr(k) : k \in DOMAIN ents}

\* the column values insert binds
EntryRow(entry) ==
    [meaning |-> serialize(entry.meaning),
     expression |-> entry.expression,
     context |-> json_to_string(entry.context),
     created_at |-> to_rfc3339(entry.created_at),
     updated_at |-> to_rfc3339(entry.updated_at)]

\* INSERT OR REPLACE in place of INSERT: never a constraint failure
InsertEntryFails_replace(ents, entry) == FALSE

\* INSERT INTO entries (...) VALUES (...): fails on an id that has a row
InsertEntryFails(ents, entry) == UuidToString(entry.id) \in DOMAIN ents

InsertEntry(ents, entry) ==
    [k \in DOMAIN ents \cup {UuidToString(entry.id)} |->
        IF k = UuidToString(entry.id) THEN EntryRow(entry) ELSE ents[k]]

\* for relation_id in &entry.relations: INSERT OR IGNORE INTO relations
InsertRelations(rels, entry) ==
    rels \cup {<<UuidToString(entry.id), UuidToString(r)>> :
                  r \in Range(entry.relations)}

\* StorageBackend::insert
insert(ents, rels, entry) ==
    IF InsertEntryFails(ents, entry)
    THEN Outcome(ents, rels, Database)
    ELSE Outcome(InsertEntry(ents, entry), InsertRelations(rels, entry), Ok)

\* an UPDATE that also sets created_at = ?
UpdateEntry_created(ents, entry) ==
    [k \in DOMAIN ents |->
        IF k = UuidToString(entry.id)
        THEN EntryRow(entry)
        ELSE ents[k]]

\* an INSERT OR REPLACE in place of the UPDATE
UpdateEntry_upsert(ents, entry) ==
    [k \in DOMAIN ents \cup {UuidToString(entry.id)} |->
        IF k = UuidToString(entry.id)
        THEN [EntryRow(entry) EXCEPT !.created_at =
                 IF k \in DOMAIN ents THEN ents[k].created_at ELSE @]
        ELSE ents[k]]

\* UPDATE entries SET meaning, expression, context, updated_at WHERE id
UpdateEntry(ents, entry) ==
    [k \in DOMAIN ents |->
        IF k = UuidToString(entry.id)
        THEN [ents[k] EXCEPT
                 !.meaning = serialize(entry.meaning),
                 !.expression = entry.expression,
                 !.context = json_to_string(entry.context),
                 !.updated_at = to_rfc3339(entry.updated_at)]
        ELSE ents[k]]

\* DELETE FROM relations WHERE from_id = ?1
DeleteOutgoing(rels, id_str) == {p \in rels : p[1] # id_str}

\* StorageBackend::update
update(ents, rels, entry) ==
    Outcome(UpdateEntry(ents, entry),
            InsertRelations(DeleteOutgoing(rels, UuidToString(entry.id)), entry),
            Ok)

\* a DELETE that lacks the OR to_id = ?1
DeleteTouching_from(rels, id_str) == {p \in rels : p[1] # id_str}

\* DELETE FROM relations WHERE from_id = ?1 OR to_id = ?1
DeleteTouching(rels, id_str) ==
    {p \in rels : p[1] # id_str /\ p[2] # id_str}

\* DELETE FROM entries WHERE id = ?1
DeleteEntry(ents, id_str) == [k \in DOMAIN ents \ {id_str} |-> ents[k]]

rows_affected(ents, id_str) == IF id_str \in DOMAIN ents THEN 1 ELSE 0

\* a delete that does not look at rows_affected
delete_unchecked(ents, rels, id) ==
    Outcome(DeleteEntry(ents, UuidToString(id)),
            DeleteTouching(rels, UuidToString(id)),
            Ok)

\* StorageBackend::delete
delete(ents, rels, id) ==
    Outcome(DeleteEntry(ents, UuidToString(id)),
            DeleteTouching(rels, UuidToString(id)),
            IF rows_affected(ents, UuidToString(id)) = 0
            THEN NotFound(id) ELSE Ok)

\* StorageBackend::count
count(ents) == Cardinality(DOMAIN ents)

\* the to_id values of SELECT to_id FROM relations WHERE from_id = ?1
RelationsOf(rels, id) ==
    {UuidParseStr(p[2]) : p \in {q \in rels : q[1] = UuidToString(id)}}

\* the orders in which the rows of a SELECT without ORDER BY may come
RowOrders(S) ==
    {s \in [1..Cardinality(S) -> S] : \A i, j \in DOMAIN s : i # j => s[i] # s[j]}

\* the closure of query_row in get: a payload that does not decode is an
\* InvalidQuery error
RowDecodes(row) == deserialize_ok(row.meaning) /\ json_parses(row.context)

\* StorageBackend::get, with the relation rows arriving in the order rel_order
get(ents, rels, id, rel_order) ==
    IF UuidToString(id) \notin DOMAIN ents
    THEN NotFound(id)
    ELSE IF ~RowDecodes(ents[UuidToString(id)])
    THEN NotFound(id)
    ELSE LET row == ents[UuidToString(id)] IN
         OkEntry([id |-> id,
                  meaning |-> deserialize(row.meaning),
                  expression |-> row.expression,
                  context |-> json_from_str(row.context),
                  created_at |-> parse_from_rfc3339(row.created_at),
                  updated_at |-> parse_from_rfc3339(row.updated_at),
                  relations |-> rel_order])

\* every result get may return for id
Gets(ents, rels, id) ==
    {get(ents, rels, id, o) : o \in RowOrders(RelationsOf(rels, id))}

(***************************************************************************)
(* The relation index and the relation filters of query.                   *)
(***************************************************************************)
RECURSIVE SetToSeq(_)
SetToSeq(S) ==
    IF S = {} THEN <<>>
    ELSE LET x == CHOOSE y \in S : TRUE IN <<x>> \o SetToSeq(S \ {x})

\* adjacency.entry(k).or_default().push(v)
Push(adjacency, k, v) ==
    [x \in DOMAIN adjacency \cup {k} |->
        IF x = k
        THEN Append(IF k \in DOMAIN adjacency THEN adjacency[k] ELSE <<>>, v)
        ELSE adjacency[x]]

RECURSIVE BuildAdjacency(_, _)
BuildAdjacency(rows, adjacency) ==
    IF rows = <<>> THEN adjacency
    ELSE LET from_id == UuidParseStr(rows[1][1])
             to_id == UuidParseStr(rows[1][2])
         IN BuildAdjacency(Tail(rows),
                           Push(Push(adjacency, from_id, to_id), to_id, from_id))

\* SqliteStorage::load_relation_index
load_relation_index(rels) ==
    [adjacency |-> BuildAdjacency(SetToSeq(rels), <<>>),
     related_ids |-> {UuidParseStr(p[1]) : p \in rels}
                        \cup {UuidParseStr(p[2]) : p \in rels}]

\* SqliteStorage::direct_relations
direct_relations(index, id) ==
    IF id \in DOMAIN index.adjacency THEN Range(index.adjacency[id]) ELSE {}

\* the for loop over the neighbours of the popped node
RECURSIVE VisitNeighbors(_, _, _)
VisitNeighbors(neighbors, hops, st) ==
    IF neighbors = <<>> THEN st
    ELSE LET neighbor == Head(neighbors) IN
         VisitNeighbors(Tail(neighbors), hops,
             IF neighbor \notin st.visited
             THEN [visited |-> st.visited \cup {neighbor},
                   results |-> st.results \cup {neighbor},
                   queue |-> Append(st.queue, <<neighbor, hops + 1>>)]
             ELSE st)

\* the while loop over the queue
RECURSIVE Bfs(_, _, _)
Bfs(index, max_hops, st) ==
    IF st.queue = <<>> THEN st.results
    ELSE LET current == Head(st.queue)[1]
             hops == Head(st.queue)[2]
             popped == [st EXCEPT !.queue = Tail(st.queue)]
         IN IF hops >= max_hops
            THEN Bfs(index, max_hops, popped)
            ELSE IF current \in DOMAIN index.adjacency
            THEN Bfs(index, max_hops,
                     VisitNeighbors(index.adjacency[current], hops, popped))
            ELSE Bfs(index, max_hops, popped)

\* SqliteStorage::within_distance_relations
within_distance_relations(index, from, max_hops) ==
    IF max_hops = 0 THEN {}
    ELSE Bfs(index, max_hops,
             [visited |-> {from}, results |-> {}, queue |-> <<<<from, 0>>>>])

\* RelationFilter
DirectlyRelatedTo(id) == [kind |-> "DirectlyRelatedTo", id |-> id, max_hops |-> 0]
WithinDistance(from, max_hops) ==
    [kind |-> "WithinDistance", id |-> from, max_hops |-> max_hops]
HasRelations == [kind |-> "HasRelations", id |-> 0, max_hops |-> 0]
NoRelations == [kind |-> "NoRelations", id |-> 0, max_hops |-> 0]

RelationFilters ==
    {DirectlyRelatedTo(id) : id \in Ids}
        \cup {WithinDistance(id, h) : id \in Ids, h \in 0..MaxHops}
        \cup {HasRelations, NoRelations}

\* SqliteStorage::get_entry_ids
get_entry_ids(ents) == StoredIds(ents)

\* SELECT from_id ... UNION SELECT to_id ...
RelatedIdsSql(rels) ==
    {UuidParseStr(p[1]) : p \in rels} \cup {UuidParseStr(p[2]) : p \in rels}

\* SqliteStorage::query_relation_ids
query_relation_ids(ents, rels, filter) ==
    CASE filter.kind = "DirectlyRelatedTo" ->
            {UuidParseStr(p[2]) : p \in {q \in rels : q[1] = UuidToString(filter.id)}}
                \cup {UuidParseStr(p[1]) : p \in {q \in rels : q[2] = UuidToString(filter.id)}}
      [] filter.kind = "WithinDistance" ->
            within_distance_relations(load_relation_index(rels),
                                      filter.id, filter.max_hops)
      [] filter.kind = "HasRelations" -> RelatedIdsSql(rels)
      [] filter.kind = "NoRelations" -> get_entry_ids(ents) \ RelatedIdsSql(rels)

\* the precise relation test of query, against the loaded index
matches_relation(index, filter, id) ==
    CASE filter.kind = "DirectlyRelatedTo" ->
            id \in direct_relations(index, filter.id)
      [] filter.kind = "WithinDistance" ->
            id \in within_distance_relations(index, filter.id, filter.max_hops)
      [] filter.kind = "HasRelations" -> id \in index.related_ids
      [] filter.kind = "NoRelations" -> id \notin index.related_ids

(***************************************************************************)
(* Text tests: str of Rust, and the SQL functions of the coarse phase.     *)
(***************************************************************************)
\* char::to_lowercase, over the characters of the model
CharToLowercase(c) ==
    CASE c = "H" -> "h"
      [] c = "U+00C9" -> "U+00E9"
      [] OTHER -> c

\* str::to_lowercase
to_lowercase(s) == [i \in DOMAIN s |-> CharToLowercase(s[i])]

\* the SQL function LOWER of SQLite: it folds the ASCII letters only
SqlLower(s) == [i \in DOMAIN s |-> IF s[i] = "H" THEN "h" ELSE s[i]]

\* str::contains; INSTR(text, s) > 0 is the same test
contains(text, s) ==
    \E i \in 0..(Len(text) - Len(s)) : SubSeq(text, i + 1, i + Len(s)) = s

\* str::starts_with
starts_with(text, s) ==
    Len(s) <= Len(text) /\ SubSeq(text, 1, Len(s)) = s

\* SUBSTR(text, 1, n)
SqlSubstr(text, n) == SubSeq(text, 1, IF n < Len(text) THEN n ELSE Len(text))

\* Regex::new(pattern) is Ok: an unclosed bracket does not compile
RegexNewOk(pattern) == "[" \notin Range(pattern)

\* Regex::is_match: an unanchored search; "." stands for any character and
\* every other character for itself
is_match(pattern, text) ==
    \E i \in 0..(Len(text) - Len(pattern)) :
        \A j \in 1..Len(pattern) :
            pattern[j] = "." \/ pattern[j] = text[i + j]

(***************************************************************************)
(* The filters of a Query (query.rs).  An Option is <<>> for None and      *)
(* <<x>> for Some(x).                                                      *)
(***************************************************************************)
None == <<>>
Some(x) == <<x>>

\* ExpressionFilter
Equals(s) == [kind |-> "Equals", value |-> s]
Contains(s) == [kind |-> "Contains", value |-> s]
StartsWith(s) == [kind |-> "StartsWith", value |-> s]
Matches(s) == [kind |-> "Matches", value |-> s]

\* ContextFilter; a path is the text of a JSON pointer
PathExists(path) == <<"PathExists", path>>
PathEquals(path, value) == <<"PathEquals", path, value>>
PathContains(path, value) == <<"PathContains", path, value>>
And(filters) == <<"And", filters>>
Or(filters) == <<"Or", filters>>

\* TemporalFilter
CreatedAfter(dt) == [kind |-> "CreatedAfter", dt |-> dt, end |-> dt]
CreatedBefore(dt) == [kind |-> "CreatedBefore", dt |-> dt, end |-> dt]
CreatedBetween(start, end) == [kind |-> "CreatedBetween", dt |-> start, end |-> end]
UpdatedAfter(dt) == [kind |-> "UpdatedAfter", dt |-> dt, end |-> dt]
UpdatedBefore(dt) == [kind |-> "UpdatedBefore", dt |-> dt, end |-> dt]

\* MeaningFilter
MeaningFilter(vector, threshold, top_k) ==
    [vector |-> vector, threshold |-> threshold, top_k |-> top_k]

\* Query::new() and the seven fields of Query
EmptyQuery ==
    [meaning |-> None, expression |-> None, context |-> None,
     relations |-> None, temporal |-> None, limit |-> None, explain |-> FALSE]

(***************************************************************************)
(* cosine_similarity (types.rs).  The result is kept as the fraction it    *)
(* is; the vectors of the model have whole magnitudes.                     *)
(***************************************************************************)
Ratio(num, den) == [nan |-> FALSE, num |-> num, den |-> den]
RatioNaN == [nan |-> TRUE, num |-> 0, den |-> 1]

\* f32 comparisons: every comparison with NaN is false
RatioGe(x, y) == ~x.nan /\ ~y.nan /\ x.num * y.den >= y.num * x.den
RatioGt(x, y) == ~x.nan /\ ~y.nan /\ x.num * y.den > y.num * x.den
RatioEq(x, y) == ~x.nan /\ ~y.nan /\ x.num * y.den = y.num * x.den

RECURSIVE SumSeq(_)
SumSeq(s) == IF s = <<>> THEN 0 ELSE Head(s) + SumSeq(Tail(s))

HasNaN(v) == \E i \in DOMAIN v : v[i].nan
SumOfSquares(v) == SumSeq([i \in DOMAIN v |-> v[i].val * v[i].val])
Sqrt(n) == CHOOSE r \in 0..n : r * r = n
\* magnitude == 0.0
ZeroMagnitude(v) == ~HasNaN(v) /\ SumOfSquares(v) = 0

\* a cosine_similarity without the length test: zip stops at the shorter
cosine_similarity_unchecked(a, b) ==
    IF ZeroMagnitude(a) \/ ZeroMagnitude(b) THEN Ratio(0, 1)
    ELSE IF HasNaN(a) \/ HasNaN(b) THEN RatioNaN
    ELSE Ratio(SumSeq([i \in 1..(IF Len(a) < Len(b) THEN Len(a) ELSE Len(b)) |->
                          a[i].val * b[i].val]),
               Sqrt(SumOfSquares(a)) * Sqrt(SumOfSquares(b)))

cosine_similarity(a, b) ==
    IF Len(a) # Len(b) THEN Ratio(0, 1)
    ELSE IF ZeroMagnitude(a) \/ ZeroMagnitude(b) THEN Ratio(0, 1)
    ELSE IF HasNaN(a) \/ HasNaN(b) THEN RatioNaN
    ELSE Ratio(SumSeq([i \in DOMAIN a |-> a[i].val * b[i].val]),
               Sqrt(SumOfSquares(a)) * Sqrt(SumOfSquares(b)))

(***************************************************************************)
(* The precise predicates of SqliteStorage.                                *)
(***************************************************************************)
\* SqliteStorage::matches_expression (the pattern compiles: query has
\* compiled it once in query_expression_ids)
matches_expression(expression, filter) ==
    CASE filter.kind = "Equals" -> expression = filter.value
      [] filter.kind = "Contains" ->
            contains(to_lowercase(expression), to_lowercase(filter.value))
      [] filter.kind = "StartsWith" -> starts_with(expression, filter.value)
      [] filter.kind = "Matches" -> is_match(filter.value, expression)

\* the reference tokens of a JSON pointer: the text between the "/"
RECURSIVE PointerTokens(_, _)
PointerTokens(path, token) ==
    IF path = <<>> THEN <<token>>
    ELSE IF Head(path) = "/"
    THEN <<token>> \o PointerTokens(Tail(path), "")
    ELSE PointerTokens(Tail(path), token \o Head(path))

\* Value::pointer: None when the text is not empty and does not start with
\* "/", or when a token names no member
RECURSIVE Walk(_, _)
Walk(v, tokens) ==
    IF tokens = <<>> THEN Some(v)
    ELSE CASE v[1] = "object" ->
                IF v[2] = Head(tokens) THEN Walk(v[3], Tail(tokens)) ELSE None
           [] v[1] = "array" ->
                IF \E i \in DOMAIN v[2] : ToString(i - 1) = Head(tokens)
                THEN Walk(v[2][CHOOSE i \in DOMAIN v[2] :
                                   ToString(i - 1) = Head(tokens)],
                          Tail(tokens))
                ELSE None
           [] OTHER -> None

pointer(v, path) ==
    IF path = <<>> THEN Some(v)
    ELSE IF Head(path) # "/" THEN None
    ELSE Walk(v, PointerTokens(Tail(path), ""))

\* a matches_context whose Or asks for every filter of the list
RECURSIVE matches_context_or_all(_, _)
matches_context_or_all(context, filter) ==
    CASE filter[1] = "PathExists" -> pointer(context, filter[2]) # None
      [] filter[1] = "PathEquals" -> pointer(context, filter[2]) = Some(filter[3])
      [] filter[1] = "PathContains" ->
            LET at == pointer(context, filter[2]) IN
            /\ at # None
            /\ at[1][1] = "array"
            /\ filter[3] \in Range(at[1][2])
      [] filter[1] \in {"And", "Or"} ->
            \A i \in DOMAIN filter[2] :
                matches_context_or_all(context, filter[2][i])

\* SqliteStorage::matches_context
RECURSIVE matches_context(_, _)
matches_context(context, filter) ==
    CASE filter[1] = "PathExists" -> pointer(context, filter[2]) # None
      [] filter[1] = "PathEquals" -> pointer(context, filter[2]) = Some(filter[3])
      [] filter[1] = "PathContains" ->
            LET at == pointer(context, filter[2]) IN
            /\ at # None
            /\ at[1][1] = "array"
            /\ filter[3] \in Range(at[1][2])
      [] filter[1] = "And" ->
            \A i \in DOMAIN filter[2] : matches_context(context, filter[2][i])
      [] filter[1] = "Or" ->
            \E i \in DOMAIN filter[2] : matches_context(context, filter[2][i])

\* a matches_temporal whose bounds are inclusive
matches_temporal_inclusive(entry, filter) ==
    CASE filter.kind = "CreatedAfter" -> entry.created_at >= filter.dt
      [] filter.kind = "CreatedBefore" -> entry.created_at <= filter.dt
      [] filter.kind = "CreatedBetween" ->
            entry.created_at >= filter.dt /\ entry.created_at <= filter.end
      [] filter.kind = "UpdatedAfter" -> entry.updated_at >= filter.dt
      [] filter.kind = "UpdatedBefore" -> entry.updated_at <= filter.dt

\* SqliteStorage::matches_temporal
matches_temporal(entry, filter) ==
    CASE filter.kind = "CreatedAfter" -> entry.created_at > filter.dt
      [] filter.kind = "CreatedBefore" -> entry.created_at < filter.dt
      [] filter.kind = "CreatedBetween" ->
            entry.created_at > filter.dt /\ entry.created_at < filter.end
      [] filter.kind = "UpdatedAfter" -> entry.updated_at > filter.dt
      [] filter.kind = "UpdatedBefore" -> entry.updated_at < filter.dt

(***************************************************************************)
(* The coarse phase: the SELECT id FROM entries WHERE ... statements.      *)
(***************************************************************************)
\* a Matches step that sends every pattern to SQL without compiling it
query_expression_ids_fails_unchecked(filter) == FALSE

\* the ? of query_expression_ids: Regex::new fails
query_expression_ids_fails(filter) ==
    filter.kind = "Matches" /\ ~RegexNewOk(filter.value)

\* SqliteStorage::query_expression_ids: SELECT id FROM entries WHERE ...
query_expression_ids(ents, filter) ==
    LET Where(row) ==
            CASE filter.kind = "Equals" -> row.expression = filter.value
              [] filter.kind = "Contains" ->
                    contains(SqlLower(row.expression), to_lowercase(filter.value))
              [] filter.kind = "StartsWith" ->
                    SqlSubstr(row.expression, Len(filter.value)) = filter.value
              [] filter.kind = "Matches" ->
                    contains(row.expression, filter.value)
    IN  {UuidParseStr(k) : k \in {x \in DOMAIN ents : Where(ents[x])}}

\* the order of the texts to_rfc3339 writes, as SQL compares them
RfcLess(a, b) == a[1] < b[1] \/ (a[1] = b[1] /\ a[2] < b[2])

\* SqliteStorage::query_temporal_ids: SELECT id FROM entries WHERE ...
query_temporal_ids(ents, filter) ==
    LET Where(row) ==
            CASE filter.kind = "CreatedAfter" ->
                    RfcLess(to_rfc3339(filter.dt), row.created_at)
              [] filter.kind = "CreatedBefore" ->
                    RfcLess(row.created_at, to_rfc3339(filter.dt))
              [] filter.kind = "CreatedBetween" ->
                    /\ RfcLess(to_rfc3339(filter.dt), row.created_at)
                    /\ RfcLess(row.created_at, to_rfc3339(filter.end))
              [] filter.kind = "UpdatedAfter" ->
                    RfcLess(to_rfc3339(filter.dt), row.updated_at)
              [] filter.kind = "UpdatedBefore" ->
                    RfcLess(row.updated_at, to_rfc3339(filter.dt))
    IN  {UuidParseStr(k) : k \in {x \in DOMAIN ents : Where(ents[x])}}

(***************************************************************************)
(* StorageBackend::query                                                   *)
(***************************************************************************)
\* candidate_ids = Some(match candidate_ids { Some(existing) =>
\* existing.intersection(&ids), None => ids })
Narrow(candidate_ids, ids) ==
    IF candidate_ids = None THEN Some(ids) ELSE Some(candidate_ids[1] \cap ids)

\* the three coarse steps of query, in their order
CoarseCandidates(ents, rels, q) ==
    LET c1 == IF q.expression = None THEN None
              ELSE Narrow(None, query_expression_ids(ents, q.expression[1]))
        c2 == IF q.temporal = None THEN c1
              ELSE Narrow(c1, query_temporal_ids(ents, q.temporal[1]))
    IN  IF q.relations = None THEN c2
        ELSE Narrow(c2, query_relation_ids(ents, rels, q.relations[1]))

\* the ids whose get fails: get_entries_by_ids and get_all_entries stop at
\* the first of them they meet
FailingGets(ents, ids) ==
    {id \in ids : get(ents, {}, id, <<>>).res # "Ok"}

\* the entries get loads for the ids of order, each with its relation rows
\* in one of their orders
RECURSIVE Materialize(_, _, _)
Materialize(ents, rels, order) ==
    IF order = <<>> THEN {<<>>}
    ELSE {<<g.entry>> \o rest :
            g \in Gets(ents, rels, Head(order)),
            rest \in Materialize(ents, rels, Tail(order))}

\* a truncate that keeps one element more
Truncate_off_by_one(results, n) ==
    SubSeq(results, 1, IF n + 1 < Len(results) THEN n + 1 ELSE Len(results))

\* results.truncate(n)
Truncate(results, n) ==
    SubSeq(results, 1, IF n < Len(results) THEN n ELSE Len(results))

\* results.sort_by(|a, b| sim_b.partial_cmp(&sim_a).unwrap()): a stable
\* sort, so an entry goes behind every entry that is not less similar
RECURSIVE SortBySimilarity(_, _)
SortBySimilarity(results, vector) ==
    IF results = <<>> THEN <<>>
    ELSE LET n == Len(results)
             sorted == SortBySimilarity(SubSeq(results, 1, n - 1), vector)
             x == results[n]
             k == Cardinality({i \in DOMAIN sorted :
                      RatioGe(cosine_similarity(sorted[i].meaning, vector),
                              cosine_similarity(x.meaning, vector))})
         IN SubSeq(sorted, 1, k) \o <<x>> \o SubSeq(sorted, k + 1, Len(sorted))

\* partial_cmp returns None on a NaN and unwrap() panics; sort_by compares
\* every element of a slice of two or more at least once
SortPanics(results, vector) ==
    /\ Len(results) >= 2
    /\ \E i \in DOMAIN results :
            cosine_similarity(results[i].meaning, vector).nan

\* a semantic filter that leaves top_k to a later step
ApplyMeaning_no_top_k(results, filter) ==
    LET sorted == SortBySimilarity(results, filter.vector)
        Above(e) == RatioGe(cosine_similarity(e.meaning, filter.vector),
                            filter.threshold[1])
    IN  IF filter.threshold = None THEN sorted ELSE SelectSeq(sorted, Above)

\* a semantic filter whose threshold is exclusive
ApplyMeaning_exclusive(results, filter) ==
    LET sorted == SortBySimilarity(results, filter.vector)
        Above(e) == RatioGt(cosine_similarity(e.meaning, filter.vector),
                            filter.threshold[1])
        kept == IF filter.threshold = None THEN sorted
                ELSE SelectSeq(sorted, Above)
    IN  IF filter.top_k = None THEN kept ELSE Truncate(kept, filter.top_k[1])

\* the semantic filter of query: sort, threshold, top_k
ApplyMeaning(results, filter) ==
    LET sorted == SortBySimilarity(results, filter.vector)
        Above(e) == RatioGe(cosine_similarity(e.meaning, filter.vector),
                            filter.threshold[1])
        kept == IF filter.threshold = None THEN sorted
                ELSE SelectSeq(sorted, Above)
    IN  IF filter.top_k = None THEN kept ELSE Truncate(kept, filter.top_k[1])

\* format!("{:.2}%", score * 100.0): the hundredths of a percent, rounded
FormatPercent(score) ==
    IF score.nan THEN [nan |-> TRUE, hundredths |-> 0]
    ELSE [nan |-> FALSE,
          hundredths |-> (2 * 10000 * score.num + score.den) \div (2 * score.den)]

Part(text, score) == [text |-> text, score |-> score]

\* a generate_explanation that leaves the temporal filter out
generate_explanation_no_temporal(q, similarity_score) ==
    (IF similarity_score # None
     THEN <<Part("Semantic similarity", Some(FormatPercent(similarity_score[1])))>>
     ELSE <<>>)
    \o (IF q.expression # None
        THEN <<Part("Matched expression filter", None)>> ELSE <<>>)
    \o (IF q.context # None
        THEN <<Part("Matched context filter", None)>> ELSE <<>>)
    \o (IF q.relations # None
        THEN <<Part("Matched relation filter", None)>> ELSE <<>>)

\* SqliteStorage::generate_explanation: the parts that are joined by ", "
generate_explanation(q, similarity_score) ==
    (IF similarity_score # None
     THEN <<Part("Semantic similarity", Some(FormatPercent(similarity_score[1])))>>
     ELSE <<>>)
    \o (IF q.expression # None
        THEN <<Part("Matched expression filter", None)>> ELSE <<>>)
    \o (IF q.context # None
        THEN <<Part("Matched context filter", None)>> ELSE <<>>)
    \o (IF q.temporal # None
        THEN <<Part("Matched temporal filter", None)>> ELSE <<>>)
    \o (IF q.relations # None
        THEN <<Part("Matched relation filter", None)>> ELSE <<>>)

\* QueryResult
QueryResult(q, entry) ==
    LET similarity_score ==
            IF q.meaning = None THEN None
            ELSE Some(cosine_similarity(entry.meaning, q.meaning[1].vector))
    IN  [entry |-> entry,
         similarity_score |-> similarity_score,
         explanation |-> IF q.explain
                         THEN Some(generate_explanation(q, similarity_score))
                         ELSE None]

\* the steps of query on the loaded entries: the precise filters, the limit
\* and the conversion to QueryResults
FilterLoaded(rels, q, ranked) ==
    LET index == load_relation_index(rels)
        Expr(e) == matches_expression(e.expression, q.expression[1])
        Ctx(e) == matches_context(e.context, q.context[1])
        Temp(e) == matches_temporal(e, q.temporal[1])
        Rel(e) == matches_relation(index, q.relations[1], e.id)
        r1 == IF q.expression = None THEN ranked ELSE SelectSeq(ranked, Expr)
        r2 == IF q.context = None THEN r1 ELSE SelectSeq(r1, Ctx)
        r3 == IF q.temporal = None THEN r2 ELSE SelectSeq(r2, Temp)
        r4 == IF q.relations = None THEN r3 ELSE SelectSeq(r3, Rel)
        r5 == IF q.limit = None THEN r4 ELSE Truncate(r4, q.limit[1])
    IN  [i \in DOMAIN r5 |-> QueryResult(q, r5[i])]

\* StorageBackend::query: the set of results the call may return.  The
\* candidate ids are visited in hash order and the rows of a SELECT come in
\* no stated order, so the order of the loaded entries and the id a NotFound
\* names are not determined.
query(ents, rels, q) ==
    IF q.expression # None /\ query_expression_ids_fails(q.expression[1])
    THEN {Database}
    ELSE
    LET candidate_ids == CoarseCandidates(ents, rels, q)
        ids == IF candidate_ids = None THEN get_entry_ids(ents)
               ELSE candidate_ids[1]
        failing == FailingGets(ents, ids)
    IN  IF candidate_ids # None /\ candidate_ids[1] = {}
        THEN {OkFound(<<>>)}
        ELSE IF failing # {}
        THEN {NotFound(id) : id \in failing}
        ELSE UNION {
                {IF q.meaning # None /\ SortPanics(loaded, q.meaning[1].vector)
                 THEN Panic
                 ELSE OkFound(FilterLoaded(rels, q,
                        IF q.meaning = None THEN loaded
                        ELSE ApplyMeaning(loaded, q.meaning[1]))) :
                    loaded \in Materialize(ents, rels, order)} :
                order \in RowOrders(ids)}

(***************************************************************************)
(* The state machine.  last records the operation just performed, the id   *)
(* it was called with and what it returned; before holds the two tables    *)
(* and the caller's entry as they were when it was called; ops counts the  *)
(* operations.                                                             *)
(***************************************************************************)
Called(op, id, result) ==
    [op |-> op, id |-> id, result |-> result, query |-> EmptyQuery,
     thread |-> 0, args |-> <<>>, ret |-> <<>>]
\* a call of query: the Query it was given and what it returned
Asked(q, result) ==
    [op |-> "query", id |-> 0, result |-> result, query |-> q,
     thread |-> 0, args |-> <<>>, ret |-> <<>>]
Snapshot ==
    [entries |-> entries, relations |-> relations, cur |-> cur,
     LAST_ERROR |-> LAST_ERROR]

\* the vectors a caller assigns to e.relations: vec![] and a vector that
\* names one id twice (add_relation never builds either from a longer one)
AssignedVecs == {<<>>} \cup {<<r, r>> : r \in Ids}

\* the relation filters the caller queries with
QueryFilters ==
    {HasRelations, NoRelations}
        \cup {DirectlyRelatedTo(id) : id \in Ids}
        \cup {WithinDistance(id, MaxHops) : id \in Ids}

\* Query::new() with one field set
WithMeaning(f) == [EmptyQuery EXCEPT !.meaning = Some(f)]
WithExpression(f) == [EmptyQuery EXCEPT !.expression = Some(f)]
WithContextFilter(f) == [EmptyQuery EXCEPT !.context = Some(f)]
WithTemporal(f) == [EmptyQuery EXCEPT !.temporal = Some(f)]
WithRelations(f) == [EmptyQuery EXCEPT !.relations = Some(f)]
WithLimit(q, n) == [q EXCEPT !.limit = Some(n)]
WithExplanation(q) == [q EXCEPT !.explain = TRUE]

\* the queries of a caller that stores, updates and deletes
LifecycleQueries == {EmptyQuery} \cup {WithRelations(f) : f \in QueryFilters}

\* the entries a caller of the query engine stores: each is built by
\* Entry::new(meaning, expression), with_context for a context and
\* add_relation for each of its relations
Stored(meaning, expression, context, rs) ==
    [meaning |-> meaning, expression |-> expression, context |-> context,
     relations |-> rs]

Puts ==
    {Stored(<<F(1), F(0)>>, <<"H", "h">>, None, <<>>),
     Stored(<<F(3), F(4)>>, <<"h", "U+00C9">>,
            Some(JObject("k", JString("v"))), <<1>>),
     Stored(<<F(1), F(0)>>, <<"H", ".">>,
            Some(JObject("k", JArray(<<JString("v")>>))), <<2>>),
     Stored(<<F(0), F(1)>>, <<"H", "h">>, None, <<3, 1>>),
     Stored(<<NaN>>, <<"H", "h">>, None, <<>>)}

\* entries whose vectors differ in length: none, one and two components,
\* and the vectors a caller gives a stored entry afterwards: empty and
\* all-zero
DimensionPuts ==
    {Stored(v, <<"H", "h">>, None, <<>>) :
        v \in {<<>>, <<F(1)>>, <<F(1), F(0)>>, <<F(3), F(4)>>, <<NaN>>}}
ReviseMeanings == {<<>>, <<F(0), F(0)>>}

\* the filters of the queries
MeaningFilters ==
    {MeaningFilter(<<F(1), F(0)>>, t, k) :
        t \in {None, Some(Ratio(3, 5))}, k \in {None, Some(1)}}
        \cup {MeaningFilter(<<NaN, F(1)>>, None, None),
              MeaningFilter(<<NaN, F(1)>>, Some(Ratio(0, 1)), Some(1))}

\* meaning filters whose vector is empty, shorter than the stored vectors or
\* all-zero, without a threshold and with a zero, negative and positive one
DimensionFilters ==
    {MeaningFilter(v, t, None) :
        v \in {<<>>, <<F(1)>>, <<F(0), F(0)>>, <<F(1), F(0)>>},
        t \in {None, Some(Ratio(0, 1)), Some(Ratio(0 - 1, 1)), Some(Ratio(3, 5))}}

ExpressionFilters ==
    {Equals(<<"H", "h">>), Contains(<<"H", "h">>), Contains(<<"U+00E9">>),
     StartsWith(<<"H">>), Matches(<<"H">>), Matches(<<"H", ".">>),
     Matches(<<"[">>)}

ContextFilters ==
    {PathExists(<<"/", "k">>),
     PathEquals(<<"/", "k">>, JString("v")),
     PathContains(<<"/", "k">>, JString("v")),
     And(<<PathExists(<<"/", "k">>), PathEquals(<<"/", "k">>, JString("v"))>>),
     Or(<<PathEquals(<<>>, JNull), PathContains(<<"/", "k">>, JString("v"))>>)}

\* empty and nested And / Or lists, and PathContains on a path that is
\* missing
NestedContextFilters ==
    {And(<<>>), Or(<<>>),
     PathContains(<<"/", "x">>, JString("v")),
     And(<<Or(<<PathEquals(<<>>, JNull), PathContains(<<"/", "k">>, JString("v"))>>),
           And(<<>>)>>),
     Or(<<And(<<PathExists(<<"/", "k">>),
                Or(<<PathContains(<<"/", "k">>, JString("v")), Or(<<>>)>>)>>),
          Or(<<>>)>>)}

TemporalFilters ==
    {CreatedAfter(0), CreatedBefore(MaxClock), CreatedBetween(0, MaxClock),
     UpdatedAfter(0), UpdatedBefore(MaxClock)}

\* temporal filters whose bound is the latest instant or lies before the
\* first, and intervals that are empty or reversed
BoundaryTemporalFilters ==
    {CreatedAfter(MaxClock), CreatedBefore(0), UpdatedAfter(MaxClock),
     UpdatedBefore(0), CreatedBetween(0 - 1, MaxClock), CreatedBetween(0, 0),
     CreatedBetween(MaxClock, 0)}

\* a query with one filter of each of the kinds named in it
Combined(m, x, c, t, r) ==
    [meaning |-> m, expression |-> x, context |-> c, temporal |-> t,
     relations |-> r, limit |-> None, explain |-> FALSE]

CombinedQueries ==
    {Combined(m, x, c, t, r) :
        m \in {None, Some(MeaningFilter(<<F(1), F(0)>>, Some(Ratio(3, 5)), None))},
        x \in {None, Some(Contains(<<"H", "h">>))},
        c \in {None, Some(PathExists(<<"/", "k">>))},
        t \in {None, Some(CreatedAfter(0))},
        r \in {None, Some(HasRelations)}}

SingleQueries ==
    {EmptyQuery}
        \cup {WithMeaning(f) : f \in MeaningFilters}
        \cup {WithExpression(f) : f \in ExpressionFilters}
        \cup {WithContextFilter(f) : f \in ContextFilters \cup NestedContextFilters}
        \cup {WithTemporal(f) : f \in TemporalFilters \cup BoundaryTemporalFilters}
        \cup {WithRelations(f) : f \in RelationFilters}

LimitedQueries ==
    {WithLimit(q, n) :
        q \in {EmptyQuery,
               WithMeaning(MeaningFilter(<<F(1), F(0)>>, None, None)),
               WithExpression(StartsWith(<<"H">>)),
               WithRelations(HasRelations)},
        n \in 0..2}

\* queries whose Matches pattern does not compile, alone and with the other
\* filters, top_k and a limit
InvalidRegexQueries ==
    {[Combined(m, Some(Matches(<<"[">>)), c, t, r) EXCEPT !.limit = l] :
        m \in {None, Some(MeaningFilter(<<F(1), F(0)>>, None, Some(1)))},
        c \in {None, Some(PathExists(<<"/", "k">>))},
        t \in {None, Some(CreatedBefore(MaxClock))},
        r \in {None, Some(HasRelations)},
        l \in {None, Some(1)}}

\* queries with top_k and a filter that is applied after it
TopKQueries ==
    {Combined(Some(MeaningFilter(<<F(1), F(0)>>, t, Some(k))), x, c, None, None) :
        t \in {None, Some(Ratio(3, 5))},
        k \in 1..2,
        x \in {None, Some(Equals(<<"H", "h">>))},
        c \in {None, Some(PathExists(<<"/", "k">>))}}

\* queries that ask for explanations: every combination of filter kinds
ExplainedQueries ==
    {WithExplanation(q) :
        q \in CombinedQueries \cup
              {Combined(Some(MeaningFilter(<<F(1), F(0)>>, Some(Ratio(3, 5)), None)),
                        Some(StartsWith(<<"H">>)),
                        Some(PathExists(<<"/", "k">>)),
                        Some(CreatedAfter(0)),
                        Some(HasRelations))}}

Queries ==
    SingleQueries \cup CombinedQueries \cup LimitedQueries
        \cup InvalidRegexQueries \cup ExplainedQueries \cup TopKQueries
        \cup {WithExplanation(EmptyQuery),
              WithExplanation(Combined(
                  Some(MeaningFilter(<<F(1), F(0)>>, None, None)),
                  Some(StartsWith(<<"H">>)), None, None, Some(HasRelations)))}

Init ==
    /\ entries = <<>>
    /\ relations = {}
    /\ cur = NoEntry
    /\ now = 0
    /\ nextId = 1
    /\ last = Called("open", 0, Ok)
    /\ before = [entries |-> <<>>, relations |-> {}, cur |-> NoEntry,
                 LAST_ERROR |-> [t \in Threads |-> None]]
    /\ ops = 0
    /\ LAST_ERROR = [t \in Threads |-> None]
    /\ recent = [t \in Threads |-> "none"]

\* the wall clock advances
Tick ==
    /\ ops < MaxOps
    /\ now < MaxClock
    /\ now' = now + 1
    /\ last' = Called("tick", 0, Ok)
    /\ before' = Snapshot
    /\ ops' = ops + 1
    /\ UNCHANGED <<entries, relations, cur, nextId, ffi>>

\* let e = Entry::new(meaning, expression): Uuid::new_v4() is a fresh id
New(meaning, expression) ==
    /\ ops < MaxOps
    /\ nextId <= MaxIds
    /\ cur' = EntryNew(nextId, meaning, expression, now)
    /\ nextId' = nextId + 1
    /\ last' = Called("new", nextId, Ok)
    /\ before' = Snapshot
    /\ ops' = ops + 1
    /\ UNCHANGED <<entries, relations, now, ffi>>

\* let e = e.with_context(context)
WithContext(context) ==
    /\ ops < MaxOps
    /\ cur # NoEntry
    /\ cur' = with_context(cur, context)
    /\ last' = Called("with_context", cur.id, Ok)
    /\ before' = Snapshot
    /\ ops' = ops + 1
    /\ UNCHANGED <<entries, relations, now, nextId, ffi>>

\* let e = e.add_relation(entry_id)
AddRelation(entry_id) ==
    /\ ops < MaxOps
    /\ cur # NoEntry
    /\ Len(cur.relations) < MaxRel \/ entry_id \in Range(cur.relations)
    /\ cur' = add_relation(cur, entry_id, now)
    /\ last' = Called("add_relation", entry_id, Ok)
    /\ before' = Snapshot
    /\ ops' = ops + 1
    /\ UNCHANGED <<entries, relations, now, nextId, ffi>>

\* direct writes of the pub fields: e.meaning = ..., e.expression = ...,
\* e.relations = vec![...], e.updated_at = Utc::now(), e.created_at = ...
SetMeaning(meaning) ==
    /\ ops < MaxOps
    /\ cur # NoEntry
    /\ cur' = [cur EXCEPT !.meaning = meaning]
    /\ last' = Called("set_meaning", cur.id, Ok)
    /\ before' = Snapshot
    /\ ops' = ops + 1
    /\ UNCHANGED <<entries, relations, now, nextId, ffi>>

SetExpression(expression) ==
    /\ ops < MaxOps
    /\ cur # NoEntry
    /\ cur' = [cur EXCEPT !.expression = expression]
    /\ last' = Called("set_expression", cur.id, Ok)
    /\ before' = Snapshot
    /\ ops' = ops + 1
    /\ UNCHANGED <<entries, relations, now, nextId, ffi>>

SetRelations(rs) ==
    /\ ops < MaxOps
    /\ cur # NoEntry
    /\ cur' = [cur EXCEPT !.relations = rs]
    /\ last' = Called("set_relations", cur.id, Ok)
    /\ before' = Snapshot
    /\ ops' = ops + 1
    /\ UNCHANGED <<entries, relations, now, nextId, ffi>>

SetUpdatedAt(t) ==
    /\ ops < MaxOps
    /\ cur # NoEntry
    /\ cur' = [cur EXCEPT !.updated_at = t]
    /\ last' = Called("set_updated_at", cur.id, Ok)
    /\ before' = Snapshot
    /\ ops' = ops + 1
    /\ UNCHANGED <<entries, relations, now, nextId, ffi>>

SetCreatedAt(t) ==
    /\ ops < MaxOps
    /\ cur # NoEntry
    /\ cur' = [cur EXCEPT !.created_at = t]
    /\ last' = Called("set_created_at", cur.id, Ok)
    /\ before' = Snapshot
    /\ ops' = ops + 1
    /\ UNCHANGED <<entries, relations, now, nextId, ffi>>

\* e.add_relation(r) for each r of rs
RECURSIVE AddRelations(_, _, _)
AddRelations(e, rs, t) ==
    IF rs = <<>> THEN e
    ELSE AddRelations(add_relation(e, Head(rs), t), Tail(rs), t)

\* let e = Entry::new(..).with_context(..).add_relation(..); db.insert(&e)
Put(p) ==
    /\ ops < MaxOps
    /\ nextId <= MaxIds
    /\ LET e0 == EntryNew(nextId, p.meaning, p.expression, now)
           e1 == IF p.context = None THEN e0 ELSE with_context(e0, p.context[1])
           e == AddRelations(e1, p.relations, now)
           out == insert(entries, relations, e)
       IN  /\ cur' = e
           /\ entries' = out.entries
           /\ relations' = out.relations
           /\ last' = Called("insert", e.id, out.result)
    /\ nextId' = nextId + 1
    /\ before' = Snapshot
    /\ ops' = ops + 1
    /\ UNCHANGED <<now, ffi>>

\* e.meaning = meaning; e.updated_at = Utc::now(); db.update(&e), for the
\* entry e the caller stored last
Revise(meaning) ==
    /\ ops < MaxOps
    /\ cur # NoEntry
    /\ LET e == [cur EXCEPT !.meaning = meaning, !.updated_at = now]
           out == update(entries, relations, e)
       IN  /\ cur' = e
           /\ entries' = out.entries
           /\ relations' = out.relations
           /\ last' = Called("update", e.id, out.result)
    /\ before' = Snapshot
    /\ ops' = ops + 1
    /\ UNCHANGED <<now, nextId, ffi>>

\* db.insert(&e)
Insert ==
    /\ ops < MaxOps
    /\ cur # NoEntry
    /\ LET out == insert(entries, relations, cur) IN
        /\ entries' = out.entries
        /\ relations' = out.relations
        /\ last' = Called("insert", cur.id, out.result)
    /\ before' = Snapshot
    /\ ops' = ops + 1
    /\ UNCHANGED <<cur, now, nextId, ffi>>

\* db.update(&e)
Update ==
    /\ ops < MaxOps
    /\ cur # NoEntry
    /\ LET out == update(entries, relations, cur) IN
        /\ entries' = out.entries
        /\ relations' = out.relations
        /\ last' = Called("update", cur.id, out.result)
    /\ before' = Snapshot
    /\ ops' = ops + 1
    /\ UNCHANGED <<cur, now, nextId, ffi>>

\* db.delete(id)
Delete(id) ==
    /\ ops < MaxOps
    /\ LET out == delete(entries, relations, id) IN
        /\ entries' = out.entries
        /\ relations' = out.relations
        /\ last' = Called("delete", id, out.result)
    /\ before' = Snapshot
    /\ ops' = ops + 1
    /\ UNCHANGED <<cur, now, nextId, ffi>>

\* let e = db.get(id)?: on Ok the caller holds the returned entry
Get(id) ==
    /\ ops < MaxOps
    /\ \E g \in Gets(entries, relations, id) :
        /\ last' = Called("get", id, g)
        /\ cur' = IF g.res = "Ok" THEN g.entry ELSE cur
    /\ before' = Snapshot
    /\ ops' = ops + 1
    /\ UNCHANGED <<entries, relations, now, nextId, ffi>>

\* db.count()
Count ==
    /\ ops < MaxOps
    /\ last' = Called("count", 0, OkCount(count(entries)))
    /\ before' = Snapshot
    /\ ops' = ops + 1
    /\ UNCHANGED <<entries, relations, cur, now, nextId, ffi>>

\* db.query(&q)
Query(q) ==
    /\ ops < MaxOps
    /\ \E r \in query(entries, relations, q) : last' = Asked(q, r)
    /\ before' = Snapshot
    /\ ops' = ops + 1
    /\ UNCHANGED <<entries, relations, cur, now, nextId, ffi>>

\* the operations of Entry and of the storage backend
NextApi ==
    \/ Tick
    \/ \E m \in NewMeanings, x \in NewExpressions : New(m, x)
    \/ \E c \in Contexts : WithContext(c)
    \/ \E id \in Ids : AddRelation(id)
    \/ Insert
    \/ Update
    \/ \E id \in Ids : Delete(id)
    \/ \E id \in Ids : Get(id)
    \/ Count
    \/ \E q \in LifecycleQueries : Query(q)

\* the direct field writes
NextAssign ==
    \/ \E m \in Meanings : SetMeaning(m)
    \/ \E x \in Expressions : SetExpression(x)
    \/ \E rs \in AssignedVecs : SetRelations(rs)
    \/ \E t \in Times : SetUpdatedAt(t)
    \/ \E t \in Times : SetCreatedAt(t)

Next == NextApi \/ NextAssign

Spec == Init /\ [][Next]_vars

\* callers that build entries through the Entry methods only
SpecApi == Init /\ [][NextApi]_vars

\* callers of the query engine: they store entries and then query them
\* once (query takes &self and leaves both tables as they are, so what a
\* query returns depends on the stored entries and edges only)
NextQuery ==
    /\ last.op # "query"
    /\ \/ Tick
       \/ \E p \in Puts : Put(p)
       \/ \E q \in Queries : Query(q)

SpecQuery == Init /\ [][NextQuery]_vars

\* callers that store and update vectors of several lengths and then run
\* one meaning query
NextDimensions ==
    /\ last.op # "query"
    /\ \/ \E p \in DimensionPuts : Put(p)
       \/ \E m \in ReviseMeanings : Revise(m)
       \/ \E f \in DimensionFilters : Query(WithMeaning(f))

SpecDimensions == Init /\ [][NextDimensions]_vars

(***************************************************************************)
(* The C ABI (ffi.rs).  A pointer argument is None when it is null.  The   *)
(* caller holds the handle of the database it opened last; every call is   *)
(* made by one of the threads of the process.                              *)
(***************************************************************************)
\* a LAST_ERROR that is one static cell in place of a thread_local
set_last_error_global(slots, thread, message) ==
    [t \in Threads |-> Some(message)]

\* set_last_error / clear_last_error: LAST_ERROR.with(..) is the cell of the
\* calling thread
set_last_error(slots, thread, message) ==
    [slots EXCEPT ![thread] = Some(message)]
clear_last_error(slots, thread) == [slots EXCEPT ![thread] = None]

\* err.to_string(): the Display of StorageError
ErrorToString(result) ==
    CASE result.res = "NotFound" -> "Entry not found: " \o ToString(result.errId)
      [] result.res = "Database" -> "Database error"

\* a C string argument: its bytes are UTF-8 text or they are not
CStr(text) == Some([utf8 |-> TRUE, text |-> text])
NotUtf8 == Some([utf8 |-> FALSE, text |-> <<>>])

\* cstr_to_string
cstr_to_string(ptr, field) ==
    IF ptr = None
    THEN [ok |-> FALSE, value |-> field \o " pointer was null"]
    ELSE IF ~ptr[1].utf8
    THEN [ok |-> FALSE, value |-> field \o " was not valid UTF-8"]
    ELSE [ok |-> TRUE, value |-> ptr[1].text]

\* a (*const f32, usize) argument pair
FloatArray(data) == [null |-> FALSE, len |-> Len(data), data |-> data]
NullArray(len) == [null |-> TRUE, len |-> len, data |-> <<>>]

\* if meaning_len == 0 { Vec::new() } else { from_raw_parts(..).to_vec() }
ToVec(meaning) == IF meaning.len = 0 THEN <<>> ELSE meaning.data

\* what a call through the C ABI returned: ok is true, or a pointer that is
\* not null; out is what it wrote through its out pointer and returned
FfiRet(ok, out) == [ok |-> ok, out |-> out]
FfiCalled(op, thread, args, result, ret) ==
    [op |-> op, id |-> 0, result |-> result, query |-> EmptyQuery,
     thread |-> thread, args |-> args, ret |-> ret]
\* a call that was refused before it reached the database
Rejected == Result("Rejected", 0, NoEntry, 0, <<>>)

\* the loop that fills Vec<ContextDBQueryResult>: the expressions came in as
\* C strings, so CString::new finds no interior NUL in them
ToFfiResults(found) ==
    [i \in DOMAIN found |->
        [id |-> found[i].entry.id,
         score |-> IF found[i].similarity_score = None THEN Ratio(0, 1)
                   ELSE found[i].similarity_score[1],
         expression |-> found[i].entry.expression]]

\* the end of a call that failed with message
FfiFailed(op, thread, args, result, message) ==
    /\ LAST_ERROR' = set_last_error(LAST_ERROR, thread, message)
    /\ recent' = [recent EXCEPT ![thread] = "failed"]
    /\ last' = FfiCalled(op, thread, args, result, FfiRet(FALSE, <<>>))

\* the end of a call that succeeded and hands out to the caller
FfiSucceeded(op, thread, args, result, out) ==
    /\ LAST_ERROR' = clear_last_error(LAST_ERROR, thread)
    /\ recent' = [recent EXCEPT ![thread] = "ok"]
    /\ last' = FfiCalled(op, thread, args, result, FfiRet(TRUE, out))

\* contextdb_open: a null or empty path is ContextDB::in_memory(), any other
\* ContextDB::new(path), which opens a new file or fails
contextdb_open(thread, path) ==
    /\ ops < MaxCalls
    /\ LET p == IF path = None THEN [ok |-> TRUE, value |-> <<>>]
                ELSE cstr_to_string(path, "path")
       IN  \/ /\ ~p.ok
              /\ FfiFailed("contextdb_open", thread, <<path>>, Rejected, p.value)
              /\ UNCHANGED <<entries, relations>>
           \/ /\ p.ok
              /\ FfiSucceeded("contextdb_open", thread, <<path>>, Ok, <<>>)
              /\ entries' = <<>>
              /\ relations' = {}
           \/ /\ p.ok
              /\ p.value # <<>>
              /\ FfiFailed("contextdb_open", thread, <<path>>, Database,
                           ErrorToString(Database))
              /\ UNCHANGED <<entries, relations>>
    /\ before' = Snapshot
    /\ ops' = ops + 1
    /\ UNCHANGED <<cur, now, nextId>>

\* contextdb_insert
contextdb_insert(thread, handle, expression, meaning) ==
    /\ ops < MaxCalls
    /\ LET args == <<handle, expression, meaning>>
           x == cstr_to_string(expression, "expression")
           message == IF handle = None THEN Some("handle was null")
                      ELSE IF meaning.null /\ meaning.len > 0
                      THEN Some("meaning pointer was null")
                      ELSE IF ~x.ok THEN Some(x.value)
                      ELSE None
       IN  IF message # None
           THEN /\ FfiFailed("contextdb_insert", thread, args, Rejected, message[1])
                /\ UNCHANGED <<entries, relations, nextId>>
           ELSE /\ nextId <= MaxIds
                /\ LET entry == EntryNew(nextId, ToVec(meaning), x.value, now)
                       out == insert(entries, relations, entry)
                   IN  /\ entries' = out.entries
                       /\ relations' = out.relations
                       /\ IF out.result.res = "Ok"
                          THEN FfiSucceeded("contextdb_insert", thread, args,
                                            out.result, <<>>)
                          ELSE FfiFailed("contextdb_insert", thread, args,
                                         out.result, ErrorToString(out.result))
                /\ nextId' = nextId + 1
    /\ before' = Snapshot
    /\ ops' = ops + 1
    /\ UNCHANGED <<cur, now>>

\* contextdb_count
contextdb_count(thread, handle, out_count) ==
    /\ ops < MaxCalls
    /\ LET args == <<handle, out_count>> IN
       IF handle = None
       THEN FfiFailed("contextdb_count", thread, args, Rejected, "handle was null")
       ELSE IF out_count = None
       THEN FfiFailed("contextdb_count", thread, args, Rejected,
                      "out_count pointer was null")
       ELSE FfiSucceeded("contextdb_count", thread, args,
                         OkCount(count(entries)), count(entries))
    /\ before' = Snapshot
    /\ ops' = ops + 1
    /\ UNCHANGED <<entries, relations, cur, now, nextId>>

\* the end of the two query functions: db.query(&query), then the results
\* as an array.  A panic of query leaves an extern "C" function: the
\* process aborts
FfiQuery(op, thread, args, q) ==
    \E r \in query(entries, relations, q) :
        CASE r.res = "Ok" ->
                FfiSucceeded(op, thread, args, r, ToFfiResults(r.found))
          [] r.res = "Panic" ->
                /\ last' = FfiCalled(op, thread, args, r, FfiRet(FALSE, <<>>))
                /\ recent' = [recent EXCEPT ![thread] = "aborted"]
                /\ UNCHANGED LAST_ERROR
          [] OTHER -> FfiFailed(op, thread, args, r, ErrorToString(r))

\* contextdb_query_meaning
contextdb_query_meaning(thread, handle, meaning, threshold, limit, out_len) ==
    /\ ops < MaxCalls
    /\ LET args == [handle |-> handle, meaning |-> meaning,
                    threshold |-> threshold, limit |-> limit,
                    out_len |-> out_len]
           with_meaning ==
               WithMeaning(MeaningFilter(ToVec(meaning),
                   IF RatioGt(Ratio(0, 1), threshold) THEN None
                   ELSE Some(threshold),
                   None))
           q == IF limit > 0 THEN WithLimit(with_meaning, limit) ELSE with_meaning
       IN  IF handle = None
           THEN FfiFailed("contextdb_query_meaning", thread, args, Rejected,
                          "handle was null")
           ELSE IF meaning.null /\ meaning.len > 0
           THEN FfiFailed("contextdb_query_meaning", thread, args, Rejected,
                          "meaning pointer was null")
           ELSE IF out_len = None
           THEN FfiFailed("contextdb_query_meaning", thread, args, Rejected,
                          "out_len pointer was null")
           ELSE FfiQuery("contextdb_query_meaning", thread, args, q)
    /\ before' = Snapshot
    /\ ops' = ops + 1
    /\ UNCHANGED <<entries, relations, cur, now, nextId>>

\* contextdb_query_expression_contains
contextdb_query_expression_contains(thread, handle, expression, limit, out_len) ==
    /\ ops < MaxCalls
    /\ LET args == [handle |-> handle, expression |-> expression,
                    limit |-> limit, out_len |-> out_len]
           x == cstr_to_string(expression, "expression")
           with_expression == WithExpression(Contains(x.value))
           q == IF limit > 0 THEN WithLimit(with_expression, limit)
                ELSE with_expression
       IN  IF handle = None
           THEN FfiFailed("contextdb_query_expression_contains", thread, args,
                          Rejected, "handle was null")
           ELSE IF out_len = None
           THEN FfiFailed("contextdb_query_expression_contains", thread, args,
                          Rejected, "out_len pointer was null")
           ELSE IF ~x.ok
           THEN FfiFailed("contextdb_query_expression_contains", thread, args,
                          Rejected, x.value)
           ELSE FfiQuery("contextdb_query_expression_contains", thread, args, q)
    /\ before' = Snapshot
    /\ ops' = ops + 1
    /\ UNCHANGED <<entries, relations, cur, now, nextId>>

\* contextdb_last_error_message: a copy of the message of the calling
\* thread, or null
contextdb_last_error_message(thread) ==
    /\ ops < MaxCalls
    /\ last' = FfiCalled("contextdb_last_error_message", thread, <<>>, Ok,
                         FfiRet(LAST_ERROR[thread] # None, LAST_ERROR[thread]))
    /\ before' = Snapshot
    /\ ops' = ops + 1
    /\ UNCHANGED <<entries, relations, cur, now, nextId, ffi>>

\* the arguments of the calls: the valid ones, and each with one pointer
\* null or one C string that is not UTF-8
Handle == Some("ContextDBHandle")
OutPointer == Some("usize")
OpenPaths == {None, CStr(<<>>), CStr(<<"H">>), NotUtf8}
InsertArgs ==
    {<<Handle, CStr(<<"H", "h">>), m>> :
        m \in {FloatArray(<<F(1), F(0)>>), FloatArray(<<F(3), F(4)>>),
               FloatArray(<<NaN>>), NullArray(0)}}
        \cup {<<None, CStr(<<"H", "h">>), FloatArray(<<F(1), F(0)>>)>>,
              <<Handle, None, FloatArray(<<F(1), F(0)>>)>>,
              <<Handle, NotUtf8, FloatArray(<<F(1), F(0)>>)>>,
              <<Handle, CStr(<<"H", "h">>), NullArray(2)>>}
CountArgs == {<<Handle, OutPointer>>, <<None, OutPointer>>, <<Handle, None>>}
QueryMeaningArgs ==
    {<<Handle, FloatArray(<<F(1), F(0)>>), t, l, OutPointer>> :
        t \in {Ratio(0 - 1, 1), Ratio(0, 1), Ratio(3, 5)}, l \in 0..1}
        \cup {<<Handle, FloatArray(<<NaN, F(1)>>), Ratio(0 - 1, 1), 0, OutPointer>>,
              <<Handle, NullArray(0), Ratio(0 - 1, 1), 0, OutPointer>>,
              <<None, FloatArray(<<F(1), F(0)>>), Ratio(0 - 1, 1), 0, OutPointer>>,
              <<Handle, NullArray(2), Ratio(0 - 1, 1), 0, OutPointer>>,
              <<Handle, FloatArray(<<F(1), F(0)>>), Ratio(0 - 1, 1), 0, None>>}
QueryContainsArgs ==
    {<<Handle, CStr(<<"H", "h">>), l, OutPointer>> : l \in 0..1}
        \cup {<<None, CStr(<<"H", "h">>), 0, OutPointer>>,
              <<Handle, None, 0, OutPointer>>,
              <<Handle, CStr(<<"H", "h">>), 0, None>>}

\* the calls of the threads of a process, until one of them aborts it
NextFfi ==
    /\ last.result.res # "Panic"
    /\ \E t \in Threads :
        \/ \E path \in OpenPaths : contextdb_open(t, path)
        \/ \E a \in InsertArgs : contextdb_insert(t, a[1], a[2], a[3])
        \/ \E a \in CountArgs : contextdb_count(t, a[1], a[2])
        \/ \E a \in QueryMeaningArgs :
                contextdb_query_meaning(t, a[1], a[2], a[3], a[4], a[5])
        \/ \E a \in QueryContainsArgs :
                contextdb_query_expression_contains(t, a[1], a[2], a[3], a[4])
        \/ contextdb_last_error_message(t)

SpecFfi == Init /\ [][NextFfi]_vars

(***************************************************************************)
(* Properties.                                                             *)
(***************************************************************************)
IdStr == UuidToString(last.id)
\* the ids of the entries a query returned
FoundIds(r) == {r.found[i].entry.id : i \in DOMAIN r.found}
InsertedOk == last.op = "insert" /\ last.result.res = "Ok"
DeletedOk == last.op = "delete" /\ last.result.res = "Ok"

\* C1: after insert(e) succeeds, get(e.id) returns an entry with e's id,
\* meaning, expression and context, and with e's relations as a set
C1_RoundTrip ==
    InsertedOk =>
        \A g \in Gets(entries, relations, cur.id) :
            /\ g.res = "Ok"
            /\ g.entry.id = cur.id
            /\ g.entry.meaning = cur.meaning
            /\ g.entry.expression = cur.expression
            /\ g.entry.context = cur.context
            /\ Range(g.entry.relations) = Range(cur.relations)

\* C2: get(id) and delete(id) on an id that has no stored entry fail with
\* NotFound(id); after a successful delete(id) the id has no stored entry,
\* so get(id) and a second delete(id) fail with NotFound(id)
C2_NotFound ==
    /\ \A id \in Ids \ StoredIds(entries) :
        /\ \A g \in Gets(entries, relations, id) : g = NotFound(id)
        /\ delete(entries, relations, id).result = NotFound(id)
    /\ (last.op \in {"get", "delete"} /\ last.id \notin StoredIds(before.entries))
            => last.result = NotFound(last.id)
    /\ DeletedOk => last.id \notin StoredIds(entries)

C2_Witness ==
    /\ last.op = "delete"
    /\ last.result = NotFound(last.id)
    /\ last.id = cur.id
    /\ entries # <<>>

\* C3: after delete(id) succeeds no persisted edge has id as its source or
\* its target, no get() of a remaining entry lists id, no DirectlyRelatedTo /
\* WithinDistance / HasRelations query returns id, and every other entry is
\* stored as before
C3_DeleteRemovesEdges ==
    DeletedOk =>
        /\ \A p \in relations : p[1] # IdStr /\ p[2] # IdStr
        /\ \A j \in Ids : \A g \in Gets(entries, relations, j) :
                g.res = "Ok" => last.id \notin Range(g.entry.relations)
        /\ \A f \in RelationFilters \ {NoRelations} :
                \A r \in query(entries, relations, WithRelations(f)) :
                    last.id \notin FoundIds(r)
        /\ DOMAIN entries = DOMAIN before.entries \ {IdStr}
        /\ \A k \in DOMAIN entries : entries[k] = before.entries[k]

C3_Witness ==
    /\ DeletedOk
    /\ \E p \in before.relations :
            p[2] = IdStr /\ p[1] # IdStr /\ p[1] \in DOMAIN entries

\* C4: insert(e) fails when e.id is already stored, and then the stored
\* entries, the persisted edges and count() are as before the call
C4_DuplicateInsert ==
    (last.op = "insert" /\ IdStr \in DOMAIN before.entries) =>
        /\ last.result.res # "Ok"
        /\ entries = before.entries
        /\ relations = before.relations
        /\ count(entries) = count(before.entries)

C4_Witness ==
    /\ last.op = "insert"
    /\ IdStr \in DOMAIN before.entries
    /\ EntryRow(cur) # before.entries[IdStr]
    /\ \E r \in Range(cur.relations) :
            <<IdStr, UuidToString(r)>> \notin before.relations

\* C5: after update(e) on a stored id, get(e.id) returns e's meaning,
\* expression, context and updated_at and exactly the set e.relations; the
\* other entries and the edges owned by other entries are unchanged
C5_UpdateReplaces ==
    (last.op = "update" /\ IdStr \in DOMAIN before.entries) =>
        /\ \A g \in Gets(entries, relations, cur.id) :
            /\ g.res = "Ok"
            /\ g.entry.meaning = cur.meaning
            /\ g.entry.expression = cur.expression
            /\ g.entry.context = cur.context
            /\ g.entry.updated_at = cur.updated_at
            /\ Range(g.entry.relations) = Range(cur.relations)
        /\ DOMAIN entries = DOMAIN before.entries
        /\ \A k \in DOMAIN entries \ {IdStr} : entries[k] = before.entries[k]
        /\ {p \in relations : p[1] # IdStr}
                = {p \in before.relations : p[1] # IdStr}

\* C6: update on an id that is not stored returns success and leaves the
\* stored entries, the persisted edges and count() as they were
C6_UpdateMissingNoOp ==
    (last.op = "update" /\ IdStr \notin DOMAIN before.entries) =>
        /\ last.result.res = "Ok"
        /\ entries = before.entries
        /\ relations = before.relations
        /\ count(entries) = count(before.entries)

\* C7: created_at never changes: a stored id keeps the created_at it was
\* inserted with through every operation, update with another created_at
\* included, and with_context / add_relation leave created_at unchanged
C7_CreatedAtFixed ==
    /\ \A k \in DOMAIN entries \cap DOMAIN before.entries :
            entries[k].created_at = before.entries[k].created_at
    /\ \A id \in Ids :
        \A g \in Gets(entries, relations, id),
           g0 \in Gets(before.entries, before.relations, id) :
            (g.res = "Ok" /\ g0.res = "Ok")
                => g.entry.created_at = g0.entry.created_at
    /\ InsertedOk =>
            parse_from_rfc3339(entries[IdStr].created_at) = cur.created_at
    /\ last.op \in {"with_context", "add_relation"}
            => cur.created_at = before.cur.created_at

C7_Witness ==
    /\ last.op = "update"
    /\ IdStr \in DOMAIN before.entries
    /\ cur.created_at # parse_from_rfc3339(entries[IdStr].created_at)
    /\ \E g \in Gets(entries, relations, cur.id) : g.res = "Ok"

\* C8: every Entry value and every stored entry has updated_at >= created_at
\* after any sequence of Entry::new, with_context, add_relation, insert and
\* update
C8_UpdatedNotBeforeCreated ==
    /\ cur.updated_at >= cur.created_at
    /\ \A k \in DOMAIN entries :
            parse_from_rfc3339(entries[k].updated_at)
                >= parse_from_rfc3339(entries[k].created_at)
    /\ last.result.entry.updated_at >= last.result.entry.created_at

C8_Witness ==
    /\ last.op = "update"
    /\ IdStr \in DOMAIN entries
    /\ parse_from_rfc3339(entries[IdStr].updated_at)
            > parse_from_rfc3339(entries[IdStr].created_at)
    /\ Len(cur.relations) > 0

\* the stored fields of id that updated_at is to account for
Mutable(ents, rels, id_str) ==
    <<ents[id_str].meaning, ents[id_str].expression, ents[id_str].context,
      {p \in rels : p[1] = id_str}>>

\* C9: updated_at strictly increases on every real mutation (with_context
\* replacing the context, add_relation adding a new id, update changing a
\* stored entry's meaning, expression, context or relations) and is
\* unchanged, with relations, when add_relation gets an id already present
C9_UpdatedAtAdvances ==
    /\ (last.op = "with_context" /\ cur.context # before.cur.context)
            => cur.updated_at > before.cur.updated_at
    /\ (last.op = "add_relation" /\ last.id \notin Range(before.cur.relations))
            => cur.updated_at > before.cur.updated_at
    /\ (last.op = "add_relation" /\ last.id \in Range(before.cur.relations))
            => /\ cur.updated_at = before.cur.updated_at
               /\ cur.relations = before.cur.relations
    /\ (/\ last.op = "update"
        /\ IdStr \in DOMAIN before.entries
        /\ Mutable(entries, relations, IdStr)
                # Mutable(before.entries, before.relations, IdStr))
            => parse_from_rfc3339(entries[IdStr].updated_at)
                    > parse_from_rfc3339(before.entries[IdStr].updated_at)

QueriedOk == last.op = "query" /\ last.result.res = "Ok"
Found == last.result.found
Min(a, b) == IF a < b THEN a ELSE b

\* the entry a row was written from: the inverse of EntryRow, with the
\* token null read as the NaN it was written for
RowEntry(ents, rels, id) ==
    LET row == ents[UuidToString(id)] IN
    [id |-> id,
     meaning |-> [i \in DOMAIN row.meaning |->
                    IF row.meaning[i] = "null" THEN NaN
                    ELSE F(CHOOSE n \in FiniteVals : ToString(n) = row.meaning[i])],
     expression |-> row.expression,
     context |-> json_from_str(row.context),
     created_at |-> parse_from_rfc3339(row.created_at),
     updated_at |-> parse_from_rfc3339(row.updated_at),
     relations |-> SetToSeq(RelationsOf(rels, id))]

\* every stored row decodes
RowsDecode(ents) == FailingGets(ents, StoredIds(ents)) = {}

\* every stored row decodes and every persisted edge joins stored entries
Intact(ents, rels) ==
    /\ RowsDecode(ents)
    /\ RelatedIdsSql(rels) \subseteq StoredIds(ents)

\* C11: an empty Query (no filter, no limit) returns every stored entry
\* exactly once, with no similarity score and no explanation, and the number
\* of results equals count()
C11_EmptyQueryReturnsAll ==
    (last.op = "query" /\ last.query = EmptyQuery) =>
        /\ last.result.res = "Ok"
        /\ Len(Found) = count(entries)
        /\ FoundIds(last.result) = StoredIds(entries)
        /\ \A i \in DOMAIN Found :
            /\ OkEntry(Found[i].entry) \in Gets(entries, relations, Found[i].entry.id)
            /\ Found[i].similarity_score = None
            /\ Found[i].explanation = None

\* the ids of a result list, in its order
IdsOf(found) == [i \in DOMAIN found |-> found[i].entry.id]

\* the results of a list have pairwise different similarity scores
DistinctScores(found) ==
    \A i, j \in DOMAIN found :
        i # j => /\ ~found[i].similarity_score[1].nan
                 /\ ~RatioEq(found[i].similarity_score[1],
                             found[j].similarity_score[1])

\* C12: a query with limit = n returns min(n, totalMatches) results, where
\* totalMatches is the number of results of the same query without a limit;
\* they are the first n of an unlimited result list, of every unlimited
\* result list when a meaning filter fixes the order; limit = 0 returns no
\* result; and the limit changes nothing else, so a limited query fails only
\* as the unlimited one does
C12_Limit ==
    (last.op = "query" /\ last.query.limit # None) =>
        LET n == last.query.limit[1]
            unlimited == query(entries, relations,
                               [last.query EXCEPT !.limit = None])
        IN  IF last.result.res # "Ok" THEN last.result \in unlimited
            ELSE /\ \A u \in unlimited :
                        /\ u.res = "Ok"
                        /\ Len(Found) = Min(n, Len(u.found))
                        /\ (last.query.meaning # None /\ DistinctScores(u.found))
                                => IdsOf(Found) = SubSeq(IdsOf(u.found), 1, Len(Found))
                 /\ \E u \in unlimited : Found = SubSeq(u.found, 1, Len(Found))
                 /\ n = 0 => Found = <<>>

C12_Witness ==
    /\ QueriedOk
    /\ last.query.limit = Some(1)
    /\ last.query.meaning # None
    /\ \E u \in query(entries, relations, [last.query EXCEPT !.limit = None]) :
            Len(u.found) = 3 /\ DistinctScores(u.found)

\* an entry passes every filter a query carries
Satisfies(rels, q, e) ==
    /\ q.meaning # None /\ q.meaning[1].threshold # None
            => RatioGe(cosine_similarity(e.meaning, q.meaning[1].vector),
                       q.meaning[1].threshold[1])
    /\ q.expression # None => matches_expression(e.expression, q.expression[1])
    /\ q.context # None => matches_context(e.context, q.context[1])
    /\ q.temporal # None => matches_temporal(e, q.temporal[1])
    /\ q.relations # None
            => matches_relation(load_relation_index(rels), q.relations[1], e.id)

\* C13: the present filters combine with AND: every returned entry passes
\* every present filter, and a query without top_k and limit whose expression
\* filter, if any, is Equals, Contains or StartsWith returns every stored
\* entry that passes all of them (stated for a store whose rows all decode
\* and whose edges all join stored entries)
C13_FiltersAnd ==
    (/\ last.op = "query"
     /\ Intact(entries, relations)
     /\ last.query.expression # None
            => RegexNewOk(last.query.expression[1].value)) =>
        /\ QueriedOk =>
                \A i \in DOMAIN Found : Satisfies(relations, last.query, Found[i].entry)
        /\ (/\ last.query.limit = None
            /\ last.query.meaning # None => last.query.meaning[1].top_k = None
            /\ last.query.expression # None
                    => last.query.expression[1].kind # "Matches")
                => /\ QueriedOk
                   /\ FoundIds(last.result) =
                        {id \in StoredIds(entries) :
                            Satisfies(relations, last.query,
                                      RowEntry(entries, relations, id))}

\* C14: for Matches(pattern) with a valid pattern the coarse candidate set
\* (the expressions that contain the pattern text) is a superset of the
\* stored entries whose expression the regex matches, and the query returns
\* exactly those entries (stated for a store whose rows all decode)
C14_MatchesCoarseSuperset ==
    (/\ last.op = "query"
     /\ Intact(entries, relations)
     /\ \E f \in ExpressionFilters :
            /\ f.kind = "Matches"
            /\ RegexNewOk(f.value)
            /\ last.query = WithExpression(f)) =>
        LET f == last.query.expression[1]
            matching == {id \in StoredIds(entries) :
                            is_match(f.value, entries[UuidToString(id)].expression)}
        IN  /\ matching \subseteq query_expression_ids(entries, f)
            /\ QueriedOk
            /\ FoundIds(last.result) = matching

\* the similarity of a stored entry to a query vector
SimilarityOf(ents, rels, id, vector) ==
    cosine_similarity(RowEntry(ents, rels, id).meaning, vector)

\* C15: with a meaning filter the results are in non-increasing order of
\* cosine similarity to the query vector, each similarity_score is that
\* similarity, with a threshold every result has similarity >= threshold,
\* and the threshold is inclusive: a meaning-only query without top_k and
\* limit that returns does not drop an entry whose similarity equals it
C15_SimilarityOrder ==
    (QueriedOk /\ last.query.meaning # None) =>
        LET m == last.query.meaning[1] IN
        /\ \A i, j \in DOMAIN Found :
                i < j => RatioGe(Found[i].similarity_score[1],
                                 Found[j].similarity_score[1])
        /\ \A i \in DOMAIN Found :
                Found[i].similarity_score
                    = Some(cosine_similarity(Found[i].entry.meaning, m.vector))
        /\ m.threshold # None =>
                \A i \in DOMAIN Found :
                    RatioGe(Found[i].similarity_score[1], m.threshold[1])
        /\ (m.threshold # None /\ last.query = WithMeaning(m) /\ m.top_k = None) =>
                \A id \in StoredIds(entries) :
                    RatioEq(SimilarityOf(entries, relations, id, m.vector),
                            m.threshold[1])
                        => id \in FoundIds(last.result)

C15_Witness ==
    /\ QueriedOk
    /\ last.query.meaning # None
    /\ last.query.meaning[1].threshold # None
    /\ Len(Found) = 2
    /\ RatioGt(Found[1].similarity_score[1], Found[2].similarity_score[1])
    /\ RatioEq(Found[2].similarity_score[1], last.query.meaning[1].threshold[1])
    /\ Cardinality(StoredIds(entries)) = 3

\* C16: the threshold is applied before top_k: a meaning-only query with
\* threshold t and top_k = k returns exactly min(k, number of stored entries
\* with similarity >= t) results, and no omitted entry with similarity >= t
\* is strictly more similar than a returned one (stated for a store whose
\* rows all decode)
C16_ThresholdBeforeTopK ==
    (/\ last.op = "query"
     /\ Intact(entries, relations)
     /\ last.query.meaning # None
     /\ last.query = WithMeaning(last.query.meaning[1])
     /\ last.query.meaning[1].threshold # None
     /\ last.query.meaning[1].top_k # None) =>
        LET m == last.query.meaning[1]
            above == {id \in StoredIds(entries) :
                        RatioGe(SimilarityOf(entries, relations, id, m.vector),
                                m.threshold[1])}
        IN  /\ QueriedOk
            /\ Len(Found) = Min(m.top_k[1], Cardinality(above))
            /\ \A id \in above \ FoundIds(last.result) :
                    \A i \in DOMAIN Found :
                        ~RatioGt(SimilarityOf(entries, relations, id, m.vector),
                                 Found[i].similarity_score[1])

\* the ids within h undirected steps of from over the persisted edges
RECURSIVE Within(_, _, _)
Within(rels, from, h) ==
    IF h = 0 THEN {from}
    ELSE LET near == Within(rels, from, h - 1) IN
         near \cup {UuidParseStr(p[2]) : p \in {e \in rels : UuidParseStr(e[1]) \in near}}
              \cup {UuidParseStr(p[1]) : p \in {e \in rels : UuidParseStr(e[2]) \in near}}

Neighbours(ents, rels, x) ==
    {y \in StoredIds(ents) :
        \/ <<UuidToString(x), UuidToString(y)>> \in rels
        \/ <<UuidToString(y), UuidToString(x)>> \in rels}

C21_InvalidRegexFails ==
    (/\ last.op = "query"
     /\ last.query.expression # None
     /\ last.query.expression[1].kind = "Matches"
     /\ ~RegexNewOk(last.query.expression[1].value)) =>
        /\ last.result.res = "Database"
        /\ Found = <<>>
        /\ query(entries, relations, last.query) = {Database}

C21_Witness ==
    /\ last.op = "query"
    /\ last.query.expression = Some(Matches(<<"[">>))
    /\ last.query.meaning # None
    /\ last.query.meaning[1].top_k # None
    /\ last.query.context # None
    /\ last.query.relations # None
    /\ last.query.limit # None
    /\ count(entries) = MaxIds
    /\ last.result.res = "Database"

\* C22: get returns NotFound only when no row with that id is stored; a
\* stored row whose payload does not decode makes get fail with a
\* Serialization error, not NotFound
C22_GetNotFoundOnlyWhenAbsent ==
    last.op = "get" =>
        /\ last.result.res = "NotFound" => IdStr \notin DOMAIN entries
        /\ (IdStr \in DOMAIN entries /\ ~RowDecodes(entries[IdStr]))
                => last.result.res = "Serialization"

\* the filter categories a query carries
Categories(q) ==
    {c \in {"meaning", "expression", "context", "temporal", "relations"} :
        q[c] # None}

\* the filter categories the parts of an explanation name
NamedCategories(explanation) ==
    {CASE explanation[i].text = "Semantic similarity" -> "meaning"
       [] explanation[i].text = "Matched expression filter" -> "expression"
       [] explanation[i].text = "Matched context filter" -> "context"
       [] explanation[i].text = "Matched temporal filter" -> "temporal"
       [] explanation[i].text = "Matched relation filter" -> "relations" :
        i \in DOMAIN explanation}

\* C23: every QueryResult has a similarity score if and only if the query has
\* a meaning filter, and an explanation if and only if the explain flag is
\* set; an explanation names each filter category of the query once and no
\* other
C23_ScoreAndExplanation ==
    QueriedOk =>
        \A i \in DOMAIN Found :
            /\ Found[i].similarity_score # None <=> last.query.meaning # None
            /\ Found[i].explanation # None <=> last.query.explain
            /\ Found[i].explanation # None =>
                    /\ NamedCategories(Found[i].explanation[1])
                            = Categories(last.query)
                    /\ Len(Found[i].explanation[1])
                            = Cardinality(Categories(last.query))

C23_Witness ==
    /\ QueriedOk
    /\ last.query.explain
    /\ Cardinality(Categories(last.query)) = 5
    /\ Found # <<>>
    /\ \E r \in query(entries, relations, [last.query EXCEPT !.explain = FALSE]) :
            r.res = "Ok" /\ r.found # <<>> /\ r.found[1].explanation = None

\* C24: vector dimensions are never enforced: insert and update accept a
\* meaning of any length (the empty one too) and no operation returns
\* InvalidDimensions; in a meaning query, a stored entry whose vector length
\* differs from the query vector's, or whose vector (or the query vector) is
\* empty or all-zero, has similarity exactly 0, so a meaning-only query
\* without top_k and limit that returns has it among its results, with score
\* 0, when there is no threshold or the threshold is <= 0, and has it not
\* when the threshold is > 0
C24_DimensionsNotEnforced ==
    /\ last.result.res # "InvalidDimensions"
    /\ last.op \in {"insert", "update"} => last.result.res = "Ok"
    /\ (/\ QueriedOk
        /\ last.query.meaning # None
        /\ last.query = WithMeaning(last.query.meaning[1])
        /\ last.query.meaning[1].top_k = None) =>
            LET m == last.query.meaning[1] IN
            \A id \in StoredIds(entries) :
                LET v == RowEntry(entries, relations, id).meaning IN
                (Len(v) # Len(m.vector) \/ ZeroMagnitude(v) \/ ZeroMagnitude(m.vector)) =>
                    /\ SimilarityOf(entries, relations, id, m.vector) = Ratio(0, 1)
                    /\ (m.threshold = None \/ RatioGe(Ratio(0, 1), m.threshold[1])) =>
                            \E i \in DOMAIN Found :
                                /\ Found[i].entry.id = id
                                /\ Found[i].similarity_score = Some(Ratio(0, 1))
                    /\ (m.threshold # None /\ RatioGt(m.threshold[1], Ratio(0, 1))) =>
                            id \notin FoundIds(last.result)

C24_Witness ==
    /\ QueriedOk
    /\ last.query.meaning # None
    /\ last.query = WithMeaning(last.query.meaning[1])
    /\ last.query.meaning[1].threshold = Some(Ratio(0, 1))
    /\ Len(last.query.meaning[1].vector) = 1
    /\ \E i, j, k \in DOMAIN Found :
            /\ Found[i].entry.meaning = <<>>
            /\ Len(Found[j].entry.meaning) = 2
            /\ ~ZeroMagnitude(Found[j].entry.meaning)
            /\ Found[k].entry.meaning = <<F(0), F(0)>>
    /\ before.entries = entries

\* the timestamp a temporal filter reads and the bounds it sets
Stamp(e, f) ==
    IF f.kind \in {"UpdatedAfter", "UpdatedBefore"} THEN e.updated_at
    ELSE e.created_at
LowerBounds(f) ==
    IF f.kind \in {"CreatedAfter", "UpdatedAfter", "CreatedBetween"} THEN {f.dt}
    ELSE {}
UpperBounds(f) ==
    CASE f.kind \in {"CreatedBefore", "UpdatedBefore"} -> {f.dt}
      [] f.kind = "CreatedBetween" -> {f.end}
      [] OTHER -> {}
StrictlyInside(e, f) ==
    /\ \A t \in LowerBounds(f) : t < Stamp(e, f)
    /\ \A t \in UpperBounds(f) : Stamp(e, f) < t

\* C25: temporal bounds are exclusive: a query with a temporal filter
\* returns only entries whose timestamp lies strictly after the lower and
\* strictly before the upper bound, so no entry whose timestamp equals a
\* bound and nothing at all for CreatedBetween(s, e) with s >= e; neither
\* the SQL step nor matches_temporal lets a stored entry on a bound through
C25_TemporalExclusive ==
    (last.op = "query" /\ last.query.temporal # None) =>
        LET f == last.query.temporal[1] IN
        /\ \A i \in DOMAIN Found : StrictlyInside(Found[i].entry, f)
        /\ (f.kind = "CreatedBetween" /\ f.dt >= f.end) => Found = <<>>
        /\ \A id \in StoredIds(entries) :
                LET e == RowEntry(entries, relations, id) IN
                /\ matches_temporal(e, f) => StrictlyInside(e, f)
                /\ id \in query_temporal_ids(entries, f) => StrictlyInside(e, f)

C25_Witness ==
    /\ QueriedOk
    /\ last.query = WithTemporal(CreatedBetween(0 - 1, MaxClock))
    /\ Found # <<>>
    /\ \E id \in StoredIds(entries) \ FoundIds(last.result) :
            RowEntry(entries, relations, id).created_at = MaxClock

\* a context filter and the filters nested in it, at every depth
RECURSIVE Subfilters(_)
Subfilters(f) ==
    {f} \cup (IF f[1] \in {"And", "Or"}
              THEN UNION {Subfilters(f[2][i]) : i \in DOMAIN f[2]}
              ELSE {})

\* the ids a query with the context filter g alone returns
MatchedBy(g) ==
    UNION {FoundIds(r) : r \in query(entries, relations, WithContextFilter(g))}

\* C28: context filters compose recursively: in a store that queries read,
\* for a context filter and every filter nested in it at any depth, And(fs)
\* returns the entries that each filter of fs returns and Or(fs) the entries
\* that at least one returns (And of no filter returns every stored entry,
\* Or of no filter none), and PathContains returns the entries whose value
\* at the path is an array that contains the value (none when the path is
\* missing or its value is not an array)
C28_ContextFiltersCompose ==
    (/\ QueriedOk
     /\ last.query.context # None
     /\ last.query = WithContextFilter(last.query.context[1])) =>
        /\ FoundIds(last.result) = MatchedBy(last.query.context[1])
        /\ \A g \in Subfilters(last.query.context[1]) :
            /\ g[1] = "And" =>
                    MatchedBy(g) = {id \in StoredIds(entries) :
                        \A i \in DOMAIN g[2] : id \in MatchedBy(g[2][i])}
            /\ g[1] = "Or" =>
                    MatchedBy(g) = {id \in StoredIds(entries) :
                        \E i \in DOMAIN g[2] : id \in MatchedBy(g[2][i])}
            /\ g = And(<<>>) => MatchedBy(g) = StoredIds(entries)
            /\ g = Or(<<>>) => MatchedBy(g) = {}
            /\ g[1] = "PathContains" =>
                    MatchedBy(g) = {id \in StoredIds(entries) :
                        LET at == pointer(RowEntry(entries, relations, id).context, g[2])
                        IN  /\ at # None
                            /\ at[1][1] = "array"
                            /\ g[3] \in Range(at[1][2])}

C28_Witness ==
    /\ QueriedOk
    /\ last.query.context # None
    /\ last.query = WithContextFilter(last.query.context[1])
    /\ last.query.context[1][1] = "Or"
    /\ Cardinality(Subfilters(last.query.context[1])) = 6
    /\ Cardinality(FoundIds(last.result)) = 1
    /\ \E id \in StoredIds(entries) \ FoundIds(last.result) :
            pointer(RowEntry(entries, relations, id).context, <<"/", "k">>)
                = Some(JString("v"))
    /\ \E id \in StoredIds(entries) \ FoundIds(last.result) :
            RowEntry(entries, relations, id).context = JNull

\* what the context filter of q keeps of a result of q without it
ContextKept(q, r) ==
    IF r.res # "Ok" THEN r
    ELSE LET Keep(x) == matches_context(x.entry.context, q.context[1])
         IN  OkFound(SelectSeq(r.found, Keep))

\* C29: top_k is applied before the precise filters: a query with
\* meaning.top_k = k and a context filter returns what the context filter
\* keeps of a result of the same query without it, and a query with top_k
\* and any filters returns at most k entries: those of the k most similar
\* candidates of the coarse phase (at or above the threshold) that pass the
\* precise filters, when the candidates differ in similarity
C29_TopKBeforePreciseFilters ==
    (/\ last.op = "query"
     /\ last.query.meaning # None
     /\ last.query.meaning[1].top_k # None
     /\ last.query.limit = None) =>
        LET q == last.query
            m == q.meaning[1]
            k == m.top_k[1]
            coarse == CoarseCandidates(entries, relations, q)
            cand == IF coarse = None THEN StoredIds(entries) ELSE coarse[1]
            Sim(id) == SimilarityOf(entries, relations, id, m.vector)
            above == {id \in cand :
                        m.threshold # None => RatioGe(Sim(id), m.threshold[1])}
            topk == {id \in above :
                        Cardinality({o \in above : RatioGt(Sim(o), Sim(id))}) < k}
        IN  /\ q.context # None =>
                    last.result \in
                        {ContextKept(q, r) :
                            r \in query(entries, relations,
                                        [q EXCEPT !.context = None])}
            /\ QueriedOk =>
                    /\ Len(Found) <= k
                    /\ (\A a, b \in above :
                            a # b => ~Sim(a).nan /\ ~RatioEq(Sim(a), Sim(b))) =>
                            FoundIds(last.result) =
                                {id \in topk :
                                    Satisfies(relations, q,
                                              RowEntry(entries, relations, id))}

\* a query with top_k = 1 and a context filter returns nothing although a
\* stored entry passes every filter of the query
C29_Witness ==
    /\ QueriedOk
    /\ last.query.meaning # None
    /\ last.query.meaning[1].top_k = Some(1)
    /\ last.query.context # None
    /\ last.query.expression = None
    /\ Found = <<>>
    /\ \E id \in StoredIds(entries) :
            Satisfies(relations, last.query, RowEntry(entries, relations, id))

\* C30: a mutating operation that returns an error changes nothing: after
\* an insert, update or delete that failed, the stored entries and the
\* persisted edges are as they were before the call; a delete that fails
\* with NotFound removes no edge
C30_FailedMutationChangesNothing ==
    (last.op \in {"insert", "update", "delete"} /\ last.result.res # "Ok") =>
        /\ entries = before.entries
        /\ relations = before.relations

(***************************************************************************)
(* Properties of the C ABI.                                                *)
(***************************************************************************)
\* C26: the last-error slot of a thread reflects how that thread's latest
\* open, insert, count or query call ended: it is empty after a call that
\* succeeded and holds a message after a call that failed (a refused null
\* handle or null buffer too), so contextdb_last_error_message returns null
\* in the first case and a message in the second; and a call leaves the
\* slot of every other thread as it was
C26_LastErrorPerThread ==
    /\ \A t \in Threads :
            /\ recent[t] = "ok" => LAST_ERROR[t] = None
            /\ recent[t] = "failed" => LAST_ERROR[t] # None
    /\ last.op = "contextdb_last_error_message" =>
            /\ last.ret.ok <=> recent[last.thread] = "failed"
            /\ last.ret.out = LAST_ERROR[last.thread]
    /\ last.thread \in Threads =>
            \A u \in Threads \ {last.thread} :
                LAST_ERROR[u] = before.LAST_ERROR[u]

\* one thread's call fails, then the other thread's call succeeds and clears
\* the message that thread had
C26_Witness ==
    /\ last.thread \in Threads
    /\ last.op \in {"contextdb_count", "contextdb_query_meaning"}
    /\ last.ret.ok
    /\ before.LAST_ERROR[last.thread] # None
    /\ LAST_ERROR[last.thread] = None
    /\ \E u \in Threads \ {last.thread} :
            recent[u] = "failed" /\ LAST_ERROR[u] # None

\* C27: at the C ABI a negative threshold means no threshold and a zero
\* limit no limit: contextdb_query_meaning with threshold < 0 and limit = 0
\* returns every stored entry, ranked by similarity; and a null handle, a
\* null out_len or a null vector pointer with a length that is not zero is
\* refused with a null result and leaves the database as it was
C27_FfiSentinels ==
    last.op = "contextdb_query_meaning" =>
        LET a == last.args
            refused == \/ a.handle = None
                       \/ a.out_len = None
                       \/ a.meaning.null /\ a.meaning.len > 0
            out == last.ret.out
        IN  /\ refused =>
                    /\ ~last.ret.ok
                    /\ entries = before.entries
                    /\ relations = before.relations
            /\ (~refused /\ RatioGt(Ratio(0, 1), a.threshold) /\ a.limit = 0) =>
                    /\ last.ret.ok
                    /\ Len(out) = count(entries)
                    /\ {out[i].id : i \in DOMAIN out} = StoredIds(entries)
                    /\ \A i, j \in DOMAIN out :
                            i < j => RatioGe(out[i].score, out[j].score)
                    /\ \A i \in DOMAIN out :
                            out[i].score = cosine_similarity(
                                RowEntry(entries, relations, out[i].id).meaning,
                                ToVec(a.meaning))

====
